---- MODULE Spec2Model ----
(***************************************************************************)
(* picorv32-rt: the reset-to-main boot sequence (_initjmp, _start,         *)
(* start_rust), the three build-time variants of the trap entry/exit       *)
(* routine _start_trap, the saved register block PicoRV32StoredRegisters   *)
(* with its accessors, its conversion and its Debug output, the dispatcher *)
(* generated by picorv32_interrupts!, wfi(), and the fatal paths (abort, a *)
(* returning main).                                                        *)
(*                                                                         *)
(* Spec is the program in normal operation; SpecFatal adds the fatal       *)
(* paths, SpecNested traps taken inside the dispatcher of a trap, SpecLive *)
(* main waiting in wfi() on a processor that never halts.                  *)
(*                                                                         *)
(* The assembly of src/src/asm.rs is kept as instruction listings that an  *)
(* interpreter executes one instruction per step.  A 32-bit word is the    *)
(* pair <<high halfword, low halfword>>, so that additions wrap at 2^32    *)
(* and bit 31 of a bitmask is a bit like any other.                        *)
(***************************************************************************)
EXTENDS Integers, Sequences, FiniteSets, TLC

VARIABLES
    feat,        \* cargo features of the build: [interrupts, qregs]
    lay,         \* linker layout and FLASH contents: [nbss, ndata, seed]
    table,       \* the pairs bound in picorv32_interrupts!, in binding order
    pc,          \* <<block, index>>: the instruction or statement to run next
    regs,        \* general registers x1..x31
    q,           \* picorv32 scratch registers q0..q3
    mem,         \* memory words that exist so far: address -> word
    irq_on,      \* interrupts unmasked at the core
    irq_active,  \* the core is inside a trap (retirq ends it)
    resume,      \* where retirq resumes the interrupted program
    args,        \* arguments of the running start_trap_rust / trap_handler
    hw_irqs,     \* history: the bitmask the hardware supplied for the trap
    pending,     \* history: the interrupt sources pending at that trap
    entry,       \* history: the registers at trap entry
    invoked,     \* history: table positions whose handler ran in this dispatch
    boot,        \* history: the steps of the current boot, in order
    nboot,       \* history: entries to _start since power on
    ntrap,       \* history: traps completed (retirq executed)
    stack,       \* the interrupted trap activations, innermost last
    nested,      \* history: <<depth, pc>> of the traps taken inside the outermost trap
    arrived,     \* interrupt sources that became pending during the dispatch
    refs,        \* history: the context reference each invoked handler got
    saved,       \* the PicoRV32AllStoredRegisters a handler converted into
    dump         \* what a handler's {:?} of the context printed

vars == <<feat, lay, table, pc, regs, q, mem, irq_on, irq_active, resume,
          args, hw_irqs, pending, entry, invoked, boot, nboot, ntrap,
          stack, nested, arrived, refs, saved, dump>>

-----------------------------------------------------------------------------
(* Bounds of the model *)

MaxBssWords == 2
MaxDataWords == 2
MaxBind == 2
MaxBoots == 2
MaxTraps == 2

-----------------------------------------------------------------------------
(* 32-bit words *)

Half == 2^16

Zero32 == <<0, 0>>

\* wrapping addition of a small signed immediate (addi, address + offset)
Add32(w, k) ==
    LET t == w[2] + k
    IN  <<(w[1] + (t \div Half)) % Half, t % Half>>

\* a < b on unsigned 32-bit words (pointer comparison)
Lt32(a, b) == a[1] < b[1] \/ (a[1] = b[1] /\ a[2] < b[2])

\* pending_irqs & (1 << n) != 0
Bit(w, n) ==
    IF n < 16 THEN ((w[2] \div (2^n)) % 2) = 1
              ELSE ((w[1] \div (2^(n - 16))) % 2) = 1

RECURSIVE SumPow(_, _)
SumPow(S, base) ==
    IF S = {} THEN 0
    ELSE LET n == CHOOSE m \in S : TRUE
         IN  2^(n - base) + SumPow(S \ {n}, base)

\* the word whose set bits are exactly the numbers in S
MaskOf(S) == <<SumPow({n \in S : n >= 16}, 16), SumPow({n \in S : n < 16}, 0)>>

-----------------------------------------------------------------------------
(* Memory *)

\* a RAM or stack word nothing has written yet reads as leftover garbage
Junk(a) == <<57005, (a[2] + 1) % Half>>

Read(m, a) == IF a \in DOMAIN m THEN m[a] ELSE Junk(a)

Write(m, a, v) == [b \in (DOMAIN m) \cup {a} |-> IF b = a THEN v ELSE m[b]]

-----------------------------------------------------------------------------
(* Linker layout: the symbols start_rust and _start consume *)

Sidata == <<0, 4096>>
Sdata(l) == <<1, 0>>
Edata(l) == Add32(Sdata(l), 4 * l.ndata)
Sbss(l) == Edata(l)
Ebss(l) == Add32(Sbss(l), 4 * l.nbss)
StackStart == <<1, 1024>>
GlobalPointer == <<1, 2048>>

BssAddrs(l) == {Add32(Sbss(l), 4 * i) : i \in 0..(l.nbss - 1)}
DataAddrs(l) == {Add32(Sdata(l), 4 * i) : i \in 0..(l.ndata - 1)}
ShadowAddrs(l) == {Add32(Sidata, 4 * i) : i \in 0..(l.ndata - 1)}

\* the initialiser the linker placed in FLASH for the i-th word of .data
ShadowWord(l, i) == <<(l.seed * 4660 + i) % Half, (l.seed * 22136 + 7 * i) % Half>>

InitMem(l) ==
    [a \in BssAddrs(l) \cup DataAddrs(l) \cup ShadowAddrs(l) |->
        IF a \in ShadowAddrs(l)
        THEN ShadowWord(l, CHOOSE i \in 0..(l.ndata - 1) : Add32(Sidata, 4 * i) = a)
        ELSE Junk(a)]

-----------------------------------------------------------------------------
(* Build configuration *)

\* the feature sets cargo can build: interrupts-qregs turns interrupts on
\* (the [features] table of Cargo.toml)
ValidFeatures ==
    {f \in [interrupts : BOOLEAN, qregs : BOOLEAN] : f.qregs => f.interrupts}

\* the Full block guarded by feature interrupts alone
VariantCfgOverlap(v, f) ==
    CASE v = "Compact" -> f.qregs
      [] v = "Full"    -> f.interrupts
      [] v = "Bare"    -> ~(f.interrupts \/ f.qregs)

\* the cfg attribute on each of the three global_asm! blocks defining _start_trap
VariantCfg(v, f) ==
    CASE v = "Compact" -> f.qregs
      [] v = "Full"    -> f.interrupts /\ ~f.qregs
      [] v = "Bare"    -> ~(f.interrupts \/ f.qregs)

Variants == {"Bare", "Full", "Compact"}

SelectedVariants(f) == {v \in Variants : VariantCfg(v, f)}

Variant(f) == CHOOSE v \in Variants : VariantCfg(v, f)

-----------------------------------------------------------------------------
(* Registers *)

RegIdx == 1..31

\* registers a called Rust function may change (RISC-V calling convention)
CallerSaved == {1, 5, 6, 7} \cup (10..17) \cup (28..31)

Reg(rs, r) == IF r = 0 THEN Zero32 ELSE rs[r]

SetReg(rs, r, v) == IF r = 0 THEN rs ELSE [rs EXCEPT ![r] = v]

ResetRegs == [r \in RegIdx |-> <<48879, r>>]

\* what a Rust callee leaves in the caller-saved registers
Clobber(rs) == [r \in RegIdx |-> IF r \in CallerSaved THEN <<51966, 255 - r>> ELSE rs[r]]

-----------------------------------------------------------------------------
(* The assembly listings of asm.rs *)

La(rd, sym)        == [op |-> "la",   rd |-> rd, rs1 |-> 0,   rs2 |-> 0,   imm |-> 0,   sym |-> sym]
Addi(rd, rs1, imm) == [op |-> "addi", rd |-> rd, rs1 |-> rs1, rs2 |-> 0,   imm |-> imm, sym |-> ""]
AddR(rd, rs1, rs2) == [op |-> "add",  rd |-> rd, rs1 |-> rs1, rs2 |-> rs2, imm |-> 0,   sym |-> ""]
Sw(rs2, imm, rs1)  == [op |-> "sw",   rd |-> 0,  rs1 |-> rs1, rs2 |-> rs2, imm |-> imm, sym |-> ""]
Lw(rd, imm, rs1)   == [op |-> "lw",   rd |-> rd, rs1 |-> rs1, rs2 |-> 0,   imm |-> imm, sym |-> ""]
Jal(rd, sym)       == [op |-> "jal",  rd |-> rd, rs1 |-> 0,   rs2 |-> 0,   imm |-> 0,   sym |-> sym]
Setq(qd, rs1)      == [op |-> "setq", rd |-> qd, rs1 |-> rs1, rs2 |-> 0,   imm |-> 0,   sym |-> ""]
Getq(rd, qs)       == [op |-> "getq", rd |-> rd, rs1 |-> qs,  rs2 |-> 0,   imm |-> 0,   sym |-> ""]
Retirq             == [op |-> "retirq", rd |-> 0, rs1 |-> 0,  rs2 |-> 0,   imm |-> 0,   sym |-> ""]

\* _initjmp: jal zero, _start
InitJmpCode == <<Jal(0, "_start")>>

\* _start
StartCode ==
    << La(3, "__global_pointer$"),
       Addi(4, 3, 0),
       La(2, "_stack_start"),
       AddR(8, 2, 0),
       Jal(0, "_start_rust") >>

\* the stores and loads of a save or restore block: the i-th register of the
\* block goes to, or comes from, word i-1 of the frame at sp
\* the stores with every slot one word higher
StoresShifted(order) == [i \in 1..Len(order) |-> Sw(order[i], i * 4, 2)]

Stores(order) == [i \in 1..Len(order) |-> Sw(order[i], (i - 1) * 4, 2)]

Loads(order) == [i \in 1..Len(order) |-> Lw(order[i], (i - 1) * 4, 2)]

\* words reserved by the first instruction of _start_trap, and released by
\* the one before retirq
CompactFrameWords == 16

\* the Full frame reserved with the size of the Compact one
FullFrameWordsAsCompact == CompactFrameWords

FullFrameWords == 18

\* the release of the Compact frame written with the size of the Full one
CompactReleaseAsFull == FullFrameWords

CompactRelease == 16
FullRelease == 18

\* registers in the order of the sw block and of the lw block (interrupts-qregs)
CompactSaved == <<3, 5, 6, 7, 10, 11, 12, 13, 14, 15, 16, 17, 28, 29, 30, 31>>
CompactRestored == <<3, 5, 6, 7, 10, 11, 12, 13, 14, 15, 16, 17, 28, 29, 30, 31>>

\* the Compact entry keeping ra and sp in the frame instead of q2 and q3
TrapCodeCompactInFrame ==
    <<Addi(2, 2, -((CompactFrameWords + 2) * 4))>>
    \o Stores(<<3, 1, 2>> \o Tail(CompactSaved))
    \o << Addi(10, 2, 0),
          Getq(11, 1),
          Jal(1, "_start_trap_rust") >>
    \o Loads(<<3, 1, 2>> \o Tail(CompactRestored))
    \o << Addi(2, 2, (CompactRelease + 2) * 4),
          Retirq >>

\* _start_trap with feature interrupts-qregs
TrapCodeCompact ==
    <<Addi(2, 2, -(CompactFrameWords * 4))>>
    \o Stores(CompactSaved)
    \o << Setq(2, 1),
          Setq(3, 2),
          Addi(10, 2, 0),
          Getq(11, 1),
          Jal(1, "_start_trap_rust"),
          Getq(1, 2),
          Getq(2, 3) >>
    \o Loads(CompactRestored)
    \o << Addi(2, 2, CompactRelease * 4),
          Retirq >>

\* registers in the order of the sw block and of the lw block (interrupts)
FullSaved == <<3, 1, 2, 5, 6, 7, 10, 11, 12, 13, 14, 15, 16, 17, 28, 29, 30, 31>>

\* the lw block reloading ra from the slot of gp and gp from the slot of ra
FullRestoredSwapped == <<1, 3, 2, 5, 6, 7, 10, 11, 12, 13, 14, 15, 16, 17, 28, 29, 30, 31>>

FullRestored == <<3, 1, 2, 5, 6, 7, 10, 11, 12, 13, 14, 15, 16, 17, 28, 29, 30, 31>>

\* the Full entry keeping ra and sp in q2 and q3 instead of the frame
TrapCodeFullScratch ==
    <<Addi(2, 2, -(CompactFrameWords * 4))>>
    \o Stores(CompactSaved)
    \o << Setq(2, 1),
          Setq(3, 2),
          Addi(10, 2, 0),
          Addi(11, 4, 0),
          Jal(1, "_start_trap_rust"),
          Getq(1, 2),
          Getq(2, 3) >>
    \o Loads(CompactRestored)
    \o << Addi(2, 2, CompactRelease * 4),
          Retirq >>

\* _start_trap with feature interrupts and without interrupts-qregs
TrapCodeFull ==
    <<Addi(2, 2, -(FullFrameWords * 4))>>
    \o Stores(FullSaved)
    \o << Addi(10, 2, 0),
          Addi(11, 4, 0),
          Jal(1, "_start_trap_rust") >>
    \o Loads(FullRestored)
    \o << Addi(2, 2, FullRelease * 4),
          Retirq >>

\* the bare entry linking in ra before it jumps
TrapCodeBareLink == <<Jal(1, "_start")>>

\* _start_trap without interrupts: jal zero, _start
TrapCodeBare == <<Jal(0, "_start")>>

\* abort: jal zero, _start
AbortCode == <<Jal(0, "_start")>>

\* every build links the trap entry that jumps to _start
TrapCodeAllBare(f) == TrapCodeBare

\* every build links the trap entry that calls the dispatcher
TrapCodeAllFull(f) == TrapCodeFull

\* the _start_trap the build links: the one block whose cfg holds
TrapCode(f) ==
    CASE Variant(f) = "Compact" -> TrapCodeCompact
      [] Variant(f) = "Full"    -> TrapCodeFull
      [] Variant(f) = "Bare"    -> TrapCodeBare

AsmBlocks == {"initjmp", "start", "trap", "abort"}

Code(blk, f) ==
    CASE blk = "initjmp" -> InitJmpCode
      [] blk = "start"   -> StartCode
      [] blk = "trap"    -> TrapCode(f)
      [] blk = "abort"   -> AbortCode

\* value of a linker symbol loaded by la
SymbolValue(sym) ==
    CASE sym = "__global_pointer$" -> GlobalPointer
      [] sym = "_stack_start"      -> StackStart

\* address of the instruction after the i-th one of a block (the link value of jal)
LinkAddr(blk, i) == <<IF blk = "trap" THEN 16 ELSE 0, 4 * i>>

-----------------------------------------------------------------------------
(* start_rust: the statements the build compiles, in program order *)

\* start_rust with the hook called after the statics are initialised
StartRustHookLate(f) ==
    IF f.interrupts
    THEN <<"zero_bss", "init_data", "pre_init", "enable", "main">>
    ELSE <<"zero_bss", "init_data", "pre_init", "main">>

\* start_rust unmasking interrupts before the statics are initialised
StartRustEnableEarly(f) ==
    IF f.interrupts
    THEN <<"pre_init", "enable", "zero_bss", "init_data", "main">>
    ELSE <<"pre_init", "zero_bss", "init_data", "main">>

StartRustCode(f) ==
    IF f.interrupts
    THEN <<"pre_init", "zero_bss", "init_data", "enable", "main">>
    ELSE <<"pre_init", "zero_bss", "init_data", "main">>

\* zero_bss stopping one word short of _ebss
RECURSIVE ZeroBssShort(_, _, _)
ZeroBssShort(m, sbss, ebss) ==
    IF Lt32(Add32(sbss, 4), ebss)
    THEN ZeroBssShort(Write(m, sbss, Zero32), Add32(sbss, 4), ebss)
    ELSE m

\* r0::zero_bss(&mut _sbss, &mut _ebss)
RECURSIVE ZeroBss(_, _, _)
ZeroBss(m, sbss, ebss) ==
    IF Lt32(sbss, ebss)
    THEN ZeroBss(Write(m, sbss, Zero32), Add32(sbss, 4), ebss)
    ELSE m

\* r0::init_data(&mut _sdata, &mut _edata, &_sidata)
RECURSIVE InitData(_, _, _, _)
InitData(m, sdata, edata, sidata) ==
    IF Lt32(sdata, edata)
    THEN InitData(Write(m, sdata, Read(m, sidata)), Add32(sdata, 4), edata, Add32(sidata, 4))
    ELSE m

-----------------------------------------------------------------------------
(* Inputs: handler tables, pending-interrupt bitmasks, interrupted programs *)

IrqNums == {0, 5, 31}

RECURSIVE SeqsUpTo(_, _)
SeqsUpTo(S, n) ==
    IF n = 0 THEN {<<>>}
    ELSE LET shorter == SeqsUpTo(S, n - 1)
         IN  shorter \cup {Append(t, x) : t \in shorter, x \in S}

\* picorv32_interrupts!( n1: h1, n2: h2, ... ): the numbers in binding order;
\* the handler of the i-th pair is identified by its position i
Tables == SeqsUpTo(IrqNums, MaxBind)

IrqSets == {{}, {0, 3, 5}, {5, 31}}

NoArgs == [regs |-> Zero32, irqs |-> Zero32]

\* no conversion made, nothing printed
NoCopy == <<>>

NoDump == <<>>

\* the registers of the interrupted program: sample values, one with a stack
\* pointer near _stack_start and one so low that the trap frame wraps below 0
Patterns == {1, 2}

MainSp(p) == IF p % 2 = 0 THEN <<0, 16 * p>> ELSE Add32(StackStart, -(16 * p))

\* the statics in .bss and .data after main has used them
MainMem(m, l) ==
    [a \in DOMAIN m |-> IF a \in BssAddrs(l) \cup DataAddrs(l) THEN <<43981, a[2]>> ELSE m[a]]

MainRegs(p) ==
    [r \in RegIdx |-> IF r = 2 THEN MainSp(p) ELSE <<4096 * p + r, 257 * r + p>>]

-----------------------------------------------------------------------------
(* Initial state: power on, the core about to fetch _initjmp *)

Seeds == {1, 2}

Layouts == [nbss : 0..MaxBssWords, ndata : 0..MaxDataWords, seed : Seeds]

BaseLayout == [nbss |-> MaxBssWords, ndata |-> MaxDataWords, seed |-> 1]

BaseTable == <<0, 5>>

\* The layout is consumed by the boot sequence and the table by the dispatcher:
\* one of the two varies while the other is at its base value.  The macro
\* picorv32_interrupts! exists only with feature interrupts.
Init ==
    /\ feat \in ValidFeatures
    /\ lay \in Layouts
    /\ table \in (IF feat.interrupts THEN Tables ELSE {<<>>})
    /\ feat.interrupts => (lay = BaseLayout \/ table = BaseTable)
    /\ pc = <<"initjmp", 1>>
    /\ regs = ResetRegs
    /\ q = [i \in 0..3 |-> <<47802, i>>]
    /\ mem = InitMem(lay)
    /\ irq_on = FALSE
    /\ irq_active = FALSE
    /\ resume = <<"none", 0>>
    /\ args = NoArgs
    /\ hw_irqs = Zero32
    /\ pending = {}
    /\ entry = ResetRegs
    /\ invoked = <<>>
    /\ boot = <<>>
    /\ nboot = 0
    /\ ntrap = 0
    /\ stack = <<>>
    /\ nested = <<>>
    /\ arrived = {}
    /\ refs = <<>>
    /\ saved = NoCopy
    /\ dump = NoDump

-----------------------------------------------------------------------------
(* The instruction interpreter *)

InAsm == pc[1] \in AsmBlocks

Instr == Code(pc[1], feat)[pc[2]]

NextPc == <<pc[1], pc[2] + 1>>

\* full addition of two words (add rd, rs1, rs2)
AddW(a, b) ==
    LET lo == a[2] + b[2]
    IN  <<(a[1] + b[1] + (lo \div Half)) % Half, lo % Half>>

\* the boot step an instruction of _start completes
StartEvents == <<"gp", "tp", "sp", "fp">>

BootAfter == IF pc[1] = "start" THEN Append(boot, StartEvents[pc[2]]) ELSE boot

ExecLa ==
    /\ InAsm /\ Instr.op = "la"
    /\ regs' = SetReg(regs, Instr.rd, SymbolValue(Instr.sym))
    /\ pc' = NextPc
    /\ boot' = BootAfter
    /\ UNCHANGED <<feat, lay, table, q, mem, irq_on, irq_active, resume, args,
                   hw_irqs, pending, entry, invoked, nboot, ntrap,
                   stack, nested, arrived, refs, saved, dump>>

ExecAddi ==
    /\ InAsm /\ Instr.op = "addi"
    /\ regs' = SetReg(regs, Instr.rd, Add32(Reg(regs, Instr.rs1), Instr.imm))
    /\ pc' = NextPc
    /\ boot' = BootAfter
    /\ UNCHANGED <<feat, lay, table, q, mem, irq_on, irq_active, resume, args,
                   hw_irqs, pending, entry, invoked, nboot, ntrap,
                   stack, nested, arrived, refs, saved, dump>>

ExecAdd ==
    /\ InAsm /\ Instr.op = "add"
    /\ regs' = SetReg(regs, Instr.rd, AddW(Reg(regs, Instr.rs1), Reg(regs, Instr.rs2)))
    /\ pc' = NextPc
    /\ boot' = BootAfter
    /\ UNCHANGED <<feat, lay, table, q, mem, irq_on, irq_active, resume, args,
                   hw_irqs, pending, entry, invoked, nboot, ntrap,
                   stack, nested, arrived, refs, saved, dump>>

ExecSw ==
    /\ InAsm /\ Instr.op = "sw"
    /\ mem' = Write(mem, Add32(Reg(regs, Instr.rs1), Instr.imm), Reg(regs, Instr.rs2))
    /\ pc' = NextPc
    /\ UNCHANGED <<feat, lay, table, regs, q, irq_on, irq_active, resume, args,
                   hw_irqs, pending, entry, invoked, boot, nboot, ntrap,
                   stack, nested, arrived, refs, saved, dump>>

ExecLw ==
    /\ InAsm /\ Instr.op = "lw"
    /\ regs' = SetReg(regs, Instr.rd, Read(mem, Add32(Reg(regs, Instr.rs1), Instr.imm)))
    /\ pc' = NextPc
    /\ UNCHANGED <<feat, lay, table, q, mem, irq_on, irq_active, resume, args,
                   hw_irqs, pending, entry, invoked, boot, nboot, ntrap,
                   stack, nested, arrived, refs, saved, dump>>

\* setq qd, rs
ExecSetq ==
    /\ InAsm /\ Instr.op = "setq"
    /\ q' = [q EXCEPT ![Instr.rd] = Reg(regs, Instr.rs1)]
    /\ pc' = NextPc
    /\ UNCHANGED <<feat, lay, table, regs, mem, irq_on, irq_active, resume, args,
                   hw_irqs, pending, entry, invoked, boot, nboot, ntrap,
                   stack, nested, arrived, refs, saved, dump>>

\* getq rd, qs
ExecGetq ==
    /\ InAsm /\ Instr.op = "getq"
    /\ regs' = SetReg(regs, Instr.rd, q[Instr.rs1])
    /\ pc' = NextPc
    /\ UNCHANGED <<feat, lay, table, q, mem, irq_on, irq_active, resume, args,
                   hw_irqs, pending, entry, invoked, boot, nboot, ntrap,
                   stack, nested, arrived, refs, saved, dump>>

\* where a jal to a symbol lands
JalTarget(sym) ==
    CASE sym = "_start"           -> <<"start", 1>>
      [] sym = "_start_rust"      -> <<"start_rust", 1>>
      [] sym = "_start_trap_rust" -> <<"start_trap_rust", 1>>

\* jal rd, sym: link in rd, jump; a0 and a1 are the callee's arguments
ExecJal ==
    /\ InAsm /\ Instr.op = "jal"
    /\ regs' = SetReg(regs, Instr.rd, LinkAddr(pc[1], pc[2]))
    /\ pc' = JalTarget(Instr.sym)
    /\ boot' = IF Instr.sym = "_start" THEN <<>> ELSE boot
    /\ nboot' = IF Instr.sym = "_start" THEN nboot + 1 ELSE nboot
    /\ args' = IF Instr.sym = "_start_trap_rust"
               THEN [regs |-> Reg(regs, 10), irqs |-> Reg(regs, 11)]
               ELSE args
    /\ UNCHANGED <<feat, lay, table, q, mem, irq_on, irq_active, resume,
                   hw_irqs, pending, entry, invoked, ntrap,
                   stack, nested, arrived, refs, saved, dump>>

\* the trap activation that is running: what a nested trap must keep of it
Activation ==
    [resume |-> resume, args |-> args, hw_irqs |-> hw_irqs, pending |-> pending,
     entry |-> entry, invoked |-> invoked, refs |-> refs, saved |-> saved,
     dump |-> dump, arrived |-> arrived]

\* retirq: resume the interrupted program and leave the trap; if the
\* interrupted program is itself a trap activation, that one runs again
ExecRetirq ==
    /\ InAsm /\ Instr.op = "retirq"
    /\ pc' = resume
    /\ ntrap' = ntrap + 1
    /\ IF stack = <<>>
       THEN /\ irq_active' = FALSE
            /\ resume' = <<"none", 0>>
            /\ hw_irqs' = Zero32
            /\ pending' = {}
            /\ entry' = ResetRegs
            /\ invoked' = <<>>
            /\ refs' = <<>>
            /\ saved' = NoCopy
            /\ dump' = NoDump
            /\ nested' = <<>>
            /\ UNCHANGED <<args, arrived, stack>>
       ELSE LET outer == stack[Len(stack)]
            IN  /\ resume' = outer.resume
                /\ args' = outer.args
                /\ hw_irqs' = outer.hw_irqs
                /\ pending' = outer.pending
                /\ entry' = outer.entry
                /\ invoked' = outer.invoked
                /\ refs' = outer.refs
                /\ saved' = outer.saved
                /\ dump' = outer.dump
                /\ arrived' = outer.arrived
                /\ stack' = SubSeq(stack, 1, Len(stack) - 1)
                /\ UNCHANGED <<irq_active, nested>>
    /\ UNCHANGED <<feat, lay, table, regs, q, mem, irq_on, boot, nboot>>

-----------------------------------------------------------------------------
(* start_rust, statement by statement *)

InStartRust(stmt) ==
    /\ pc[1] = "start_rust"
    /\ StartRustCode(feat)[pc[2]] = stmt

\* __pre_init()
PreInit ==
    /\ InStartRust("pre_init")
    /\ regs' = Clobber(regs)
    /\ pc' = NextPc
    /\ boot' = Append(boot, "pre_init")
    /\ UNCHANGED <<feat, lay, table, q, mem, irq_on, irq_active, resume, args,
                   hw_irqs, pending, entry, invoked, nboot, ntrap,
                   stack, nested, arrived, refs, saved, dump>>

ZeroBssCall ==
    /\ InStartRust("zero_bss")
    /\ mem' = ZeroBss(mem, Sbss(lay), Ebss(lay))
    /\ pc' = NextPc
    /\ boot' = Append(boot, "zero_bss")
    /\ UNCHANGED <<feat, lay, table, regs, q, irq_on, irq_active, resume, args,
                   hw_irqs, pending, entry, invoked, nboot, ntrap,
                   stack, nested, arrived, refs, saved, dump>>

InitDataCall ==
    /\ InStartRust("init_data")
    /\ mem' = InitData(mem, Sdata(lay), Edata(lay), Sidata)
    /\ pc' = NextPc
    /\ boot' = Append(boot, "init_data")
    /\ UNCHANGED <<feat, lay, table, regs, q, irq_on, irq_active, resume, args,
                   hw_irqs, pending, entry, invoked, nboot, ntrap,
                   stack, nested, arrived, refs, saved, dump>>

\* picorv32::interrupt::enable()
EnableInterrupts ==
    /\ InStartRust("enable")
    /\ irq_on' = TRUE
    /\ pc' = NextPc
    /\ boot' = Append(boot, "enable")
    /\ UNCHANGED <<feat, lay, table, regs, q, mem, irq_active, resume, args,
                   hw_irqs, pending, entry, invoked, nboot, ntrap,
                   stack, nested, arrived, refs, saved, dump>>

\* main()
CallMain ==
    /\ InStartRust("main")
    /\ pc' = <<"main", 1>>
    /\ boot' = Append(boot, "main")
    /\ UNCHANGED <<feat, lay, table, regs, q, mem, irq_on, irq_active, resume, args,
                   hw_irqs, pending, entry, invoked, nboot, ntrap,
                   stack, nested, arrived, refs, saved, dump>>

\* user main runs: its registers take arbitrary values and it writes its statics
MainStep ==
    /\ pc[1] = "main"
    /\ \E p \in Patterns : regs' = MainRegs(p)
    /\ mem' = MainMem(mem, lay)
    /\ pc' = <<"main", 2>>
    /\ UNCHANGED <<feat, lay, table, q, irq_on, irq_active, resume, args,
                   hw_irqs, pending, entry, invoked, boot, nboot, ntrap,
                   stack, nested, arrived, refs, saved, dump>>

\* user code reaches abort, the symbol fatal paths are linked against
CallAbort ==
    /\ pc[1] = "main"
    /\ nboot < MaxBoots
    /\ pc' = <<"abort", 1>>
    /\ UNCHANGED <<feat, lay, table, regs, q, mem, irq_on, irq_active, resume, args,
                   hw_irqs, pending, entry, invoked, boot, nboot, ntrap,
                   stack, nested, arrived, refs, saved, dump>>

\* start_rust calls abort after main
AfterMainAbort(f) == <<"abort", 1>>

\* start_rust ends with main(): main is declared fn() -> ! and nothing follows
\* the call, so a return from main continues at no statement of the program
AfterMain(f) == <<"undefined", 0>>

\* user main returns, against its type
MainReturns ==
    /\ pc[1] = "main"
    /\ pc' = AfterMain(feat)
    /\ UNCHANGED <<feat, lay, table, regs, q, mem, irq_on, irq_active, resume, args,
                   hw_irqs, pending, entry, invoked, boot, nboot, ntrap,
                   stack, nested, arrived, refs, saved, dump>>

\* past the end of start_rust the processor runs whatever the image holds
\* there: it may never come back (no step), or it may reach _start
Undefined ==
    /\ pc = <<"undefined", 0>>
    /\ nboot < MaxBoots
    /\ pc' = <<"start", 1>>
    /\ boot' = <<>>
    /\ nboot' = nboot + 1
    /\ UNCHANGED <<feat, lay, table, regs, q, mem, irq_on, irq_active, resume, args,
                   hw_irqs, pending, entry, invoked, ntrap,
                   stack, nested, arrived, refs, saved, dump>>

\* waitirq completes although the core is still waiting
WfiDoneEarly == pc[1] = "wfi"

\* waitirq has completed: the trap that ended the wait has returned
WfiDone == pc = <<"wfi", 2>>

\* user main calls wfi(): the core executes waitirq and waits
Wfi ==
    /\ pc[1] = "main"
    /\ pc' = <<"wfi", 1>>
    /\ UNCHANGED <<feat, lay, table, regs, q, mem, irq_on, irq_active, resume, args,
                   hw_irqs, pending, entry, invoked, boot, nboot, ntrap,
                   stack, nested, arrived, refs, saved, dump>>

\* wfi() drops the bitmask waitirq produced and returns to main
WfiReturn ==
    /\ WfiDone
    /\ pc' = <<"main", 3>>
    /\ regs' = Clobber(regs)
    /\ UNCHANGED <<feat, lay, table, q, mem, irq_on, irq_active, resume, args,
                   hw_irqs, pending, entry, invoked, boot, nboot, ntrap,
                   stack, nested, arrived, refs, saved, dump>>

-----------------------------------------------------------------------------
(* Hardware traps *)

\* where the core puts the pending-interrupt bitmask: tp without q registers,
\* q1 with them
TrapRegs(f, rs, mask) == IF f.qregs THEN rs ELSE [rs EXCEPT ![4] = mask]

TrapQ(f, qs, mask) == IF f.qregs THEN [qs EXCEPT ![1] = mask] ELSE qs

\* where the interrupted program continues after retirq: at the instruction
\* the trap kept from executing, or after the waitirq the trap ended
Resumption(p) == IF p = <<"wfi", 1>> THEN <<"wfi", 2>> ELSE p

\* an interrupt is taken: the core masks further traps and enters _start_trap
TrapIrq ==
    /\ feat.interrupts
    /\ irq_on /\ ~irq_active
    /\ pc[1] \in {"main", "start_rust", "wfi"}
    /\ ntrap < MaxTraps
    /\ \E S \in IrqSets :
          /\ hw_irqs' = MaskOf(S)
          /\ pending' = S
          /\ regs' = TrapRegs(feat, regs, MaskOf(S))
          /\ q' = TrapQ(feat, q, MaskOf(S))
    /\ entry' = regs'
    /\ invoked' = <<>>
    /\ resume' = Resumption(pc)
    /\ irq_active' = TRUE
    /\ pc' = <<"trap", 1>>
    /\ UNCHANGED <<feat, lay, table, mem, irq_on, args, boot, nboot, ntrap,
                   stack, nested, arrived, refs, saved, dump>>

\* the sources pending at a trap taken inside a trap: one that has a handler
\* and one that has none
NestedIrqSets == {{5, 31}}

\* a trap is taken while trap_handler of a trap runs (a handler let traps in
\* again): the core does what it does for any trap, and the interrupted
\* activation waits for the inner retirq
NestedTrap ==
    /\ feat.interrupts
    /\ irq_active
    /\ pc[1] = "trap_handler"
    /\ ntrap + Len(stack) < MaxTraps
    /\ \E S \in NestedIrqSets :
          /\ hw_irqs' = MaskOf(S)
          /\ pending' = S
          /\ regs' = TrapRegs(feat, regs, MaskOf(S))
          /\ q' = TrapQ(feat, q, MaskOf(S))
    /\ stack' = Append(stack, Activation)
    /\ nested' = Append(nested, <<Len(stack) + 1, pc>>)
    /\ entry' = regs'
    /\ args' = NoArgs
    /\ invoked' = <<>>
    /\ refs' = <<>>
    /\ saved' = NoCopy
    /\ dump' = NoDump
    /\ arrived' = {}
    /\ resume' = pc
    /\ pc' = <<"trap", 1>>
    /\ UNCHANGED <<feat, lay, table, mem, irq_on, irq_active, boot, nboot, ntrap>>

\* a trap in a build without interrupt support
TrapBare ==
    /\ ~feat.interrupts
    /\ pc[1] \in {"main", "wfi"}
    /\ nboot < MaxBoots
    /\ pc' = <<"trap", 1>>
    /\ entry' = regs
    /\ UNCHANGED <<feat, lay, table, regs, q, mem, irq_on, irq_active, resume, args,
                   hw_irqs, pending, invoked, boot, nboot, ntrap,
                   stack, nested, arrived, refs, saved, dump>>

-----------------------------------------------------------------------------
(* PicoRV32StoredRegisters: accessors, conversion, Debug *)

\* the registers a context stands for: ra, sp, gp, t0-t2, a0-a7, t3-t6
ContextRegs == {1, 2, 3, 5, 6, 7} \cup (10..17) \cup (28..31)

\* the fields of the #[repr(C)] struct in declaration order; x1 and x2 are
\* compiled only without interrupts-qregs
StructFields(f) ==
    <<3>> \o (IF f.qregs THEN <<>> ELSE <<1, 2>>)
          \o <<5, 6, 7, 10, 11, 12, 13, 14, 15, 16, 17, 28, 29, 30, 31>>

FieldIndex(f, r) == CHOOSE i \in 1..Len(StructFields(f)) : StructFields(f)[i] = r

\* the accessor methods the build compiles: x10, x11 and x12 carry
\* #[cfg(not(feature = "interrupts-qregs"))] and have no other definition
AccessorRegs(f) == IF f.qregs THEN ContextRegs \ {10, 11, 12} ELSE ContextRegs

NoAccessor == <<-1, -1>>

\* regs.xN() for the context at address ptr
Accessor(f, r, m, qs, ptr) ==
    IF r \notin AccessorRegs(f) THEN NoAccessor
    ELSE IF f.qregs /\ r = 1 THEN qs[2]
    ELSE IF f.qregs /\ r = 2 THEN qs[3]
    ELSE Read(m, Add32(ptr, 4 * (FieldIndex(f, r) - 1)))

\* the fields of PicoRV32AllStoredRegisters in declaration order
AllFields == <<3, 1, 2, 5, 6, 7, 10, 11, 12, 13, 14, 15, 16, 17, 28, 29, 30, 31>>

AllIndex(r) == CHOOSE i \in 1..Len(AllFields) : AllFields[i] = r

\* From<PicoRV32StoredRegisters>: with interrupts-qregs every field is set from
\* the accessor of the same name, otherwise transmute_copy copies the source
\* word for word into the fields of the target
FromStored(f, m, qs, ptr) ==
    IF f.qregs
    THEN [r \in ContextRegs |-> Accessor(f, r, m, qs, ptr)]
    ELSE [r \in ContextRegs |-> Read(m, Add32(ptr, 4 * (AllIndex(r) - 1)))]

\* the program text: a word of code at address a
TextWord(a) == <<(4 * a[2] + 3) % Half, (4 * a[1] + 2) % Half>>

\* *(a as *const u16): little endian, the low halfword at the lower address
ReadHalf(m, a) ==
    LET wa == <<a[1], a[2] - (a[2] % 4)>>
        w  == IF wa \in DOMAIN m THEN m[wa] ELSE TextWord(wa)
    IN  IF a[2] % 4 < 2 THEN w[2] ELSE w[1]

\* Debug::fmt: the instruction before the return address, then the registers
DebugFmt(f, m, qs, ptr) ==
    LET ra         == Accessor(f, 1, m, qs, ptr)
        pcv        == IF ra[2] % 2 = 1 THEN Add32(ra, -3) ELSE Add32(ra, -4)
        instr      == ReadHalf(m, pcv)
        long_instr == instr % 4 = 3
        instr2     == ReadHalf(m, Add32(pcv, 2))
    IN  [ra     |-> ra,
         addr   |-> pcv,
         digits |-> IF long_instr THEN 8 ELSE 4,
         instr  |-> IF long_instr THEN <<instr2, instr>> ELSE <<0, instr>>,
         regs   |-> [r \in ContextRegs |-> Accessor(f, r, m, qs, ptr)]]

-----------------------------------------------------------------------------
(* start_trap_rust and the dispatcher picorv32_interrupts! generates *)

\* start_trap_rust(regs, irqs) hands both arguments to trap_handler
StartTrapRust ==
    /\ pc = <<"start_trap_rust", 1>>
    /\ args' = [regs |-> args.regs, irqs |-> args.irqs]
    /\ pc' = <<"trap_handler", 1>>
    /\ UNCHANGED <<feat, lay, table, regs, q, mem, irq_on, irq_active, resume,
                   hw_irqs, pending, entry, invoked, boot, nboot, ntrap,
                   stack, nested, arrived, refs, saved, dump>>

\* the @interrupt arm tests only irq numbers below 16
ArmFiresLowHalf(irqs, n) == n < 16 /\ Bit(irqs, n)

\* the @interrupt arm tests the sources pending now, not the argument alone
ArmFiresLive(irqs, n) == Bit(irqs, n) \/ n \in arrived

\* the @interrupt arm of a pair bound to number n: is its handler called?
ArmFires(irqs, n) == Bit(irqs, n)

\* the arms expanded last pair first
ExpansionReversed(t) == [i \in 1..Len(t) |-> Len(t) + 1 - i]

\* $( ... )*: one arm per bound pair, in the order the pairs were written;
\* the k-th arm is the one of the pair at position Expansion(t)[k]
Expansion(t) == [i \in 1..Len(t) |-> i]

\* the arm trap_handler is about to run
Arm == Expansion(table)[pc[2]]

\* one @interrupt arm: if its bit is set the handler is called with the
\* context reference; the handler converts the context and prints it
Interrupt ==
    /\ pc[1] = "trap_handler"
    /\ pc[2] <= Len(table)
    /\ \/ /\ ArmFires(args.irqs, table[Arm])
          /\ invoked' = Append(invoked, Arm)
          /\ refs' = Append(refs, args.regs)
          /\ saved' = FromStored(feat, mem, q, args.regs)
          /\ dump' = DebugFmt(feat, mem, q, args.regs)
          /\ regs' = Clobber(regs)
       \/ /\ ~ArmFires(args.irqs, table[Arm])
          /\ UNCHANGED <<invoked, refs, saved, dump, regs>>
    /\ pc' = <<"trap_handler", pc[2] + 1>>
    /\ UNCHANGED <<feat, lay, table, q, mem, irq_on, irq_active, resume, args,
                   hw_irqs, pending, entry, boot, nboot, ntrap,
                   stack, nested, arrived>>

\* an interrupt source becomes pending while trap_handler runs: the core
\* records it, and writes neither tp nor q1 before the next trap entry
RaiseIrq ==
    /\ pc[1] = "trap_handler"
    /\ arrived = {}
    /\ \E n \in IrqNums : arrived' = {n}
    /\ UNCHANGED <<feat, lay, table, pc, regs, q, mem, irq_on, irq_active, resume, args,
                   hw_irqs, pending, entry, invoked, boot, nboot, ntrap,
                   stack, nested, refs, saved, dump>>

\* the instruction after jal ra, _start_trap_rust
ReturnPc(f) ==
    LET code == TrapCode(f)
    IN  <<"trap", 1 + CHOOSE i \in 1..Len(code) : code[i] = Jal(1, "_start_trap_rust")>>

\* trap_handler and start_trap_rust return to _start_trap
TrapHandlerReturn ==
    /\ pc[1] = "trap_handler"
    /\ pc[2] = Len(table) + 1
    /\ regs' = Clobber(regs)
    /\ pc' = ReturnPc(feat)
    /\ args' = NoArgs
    /\ arrived' = {}
    /\ UNCHANGED <<feat, lay, table, q, mem, irq_on, irq_active, resume,
                   hw_irqs, pending, entry, invoked, boot, nboot, ntrap,
                   stack, nested, refs, saved, dump>>

-----------------------------------------------------------------------------

\* the steps of the runtime, of user main and of the core taking a trap
Run ==
    \/ ExecLa \/ ExecAddi \/ ExecAdd \/ ExecSw \/ ExecLw
    \/ ExecSetq \/ ExecGetq \/ ExecJal \/ ExecRetirq
    \/ PreInit \/ ZeroBssCall \/ InitDataCall \/ EnableInterrupts \/ CallMain
    \/ MainStep
    \/ TrapIrq \/ TrapBare
    \/ StartTrapRust \/ Interrupt \/ TrapHandlerReturn

Next == Run \/ RaiseIrq

Spec == Init /\ [][Next]_vars

\* one layout and one handler table per build
BaseInit ==
    /\ Init
    /\ lay = BaseLayout
    /\ feat.interrupts => table = BaseTable

\* the program with its fatal paths: abort is called, main returns
NextFatal == Run \/ CallAbort \/ MainReturns \/ Undefined

SpecFatal == BaseInit /\ [][NextFatal]_vars

\* the program when main waits for interrupts
NextLive == Run \/ Wfi \/ WfiReturn

\* what the processor does by itself: it executes the next instruction of the
\* runtime, and the handlers of the model return
Cpu ==
    \/ ExecLa \/ ExecAddi \/ ExecAdd \/ ExecSw \/ ExecLw
    \/ ExecSetq \/ ExecGetq \/ ExecJal \/ ExecRetirq
    \/ PreInit \/ ZeroBssCall \/ InitDataCall \/ EnableInterrupts \/ CallMain
    \/ StartTrapRust \/ Interrupt \/ TrapHandlerReturn
    \/ WfiReturn

SpecLive == BaseInit /\ [][NextLive]_vars /\ WF_vars(Cpu)

\* the program when traps are taken inside traps
NextNested == Run \/ NestedTrap

SpecNested == BaseInit /\ [][NextNested]_vars

-----------------------------------------------------------------------------
(* Boot sequence: claims *)

BssZero == \A a \in BssAddrs(lay) : Read(mem, a) = Zero32

DataInitialised ==
    \A i \in 0..(lay.ndata - 1) :
        /\ Read(mem, Add32(Sdata(lay), 4 * i)) = Read(mem, Add32(Sidata, 4 * i))
        /\ Read(mem, Add32(Sidata, 4 * i)) = ShadowWord(lay, i)

\* user main has just been invoked and has not run yet
AtMainEntry == pc = <<"main", 1>>

\* C1: whatever the size of .bss (in words) and the contents of the FLASH
\* shadow, when start_rust invokes main every word of [_sbss, _ebss) reads
\* zero and every word of [_sdata, _edata) equals its shadow word at _sidata.
C1_StaticsInitialisedAtMain == AtMainEntry => (BssZero /\ DataInitialised)

\* main is entered after a reboot with the largest regions, over statics that
\* an earlier run of main had overwritten
C1_Witness ==
    /\ AtMainEntry
    /\ nboot = 2
    /\ lay.nbss = MaxBssWords /\ lay.ndata = MaxDataWords /\ lay.seed = 2

IsPrefix(a, b) == Len(a) <= Len(b) /\ \A i \in 1..Len(a) : a[i] = b[i]

Position(x, log) == CHOOSE i \in 1..Len(log) : log[i] = x

Occurs(x, log) == \E i \in 1..Len(log) : log[i] = x

\* the steps of one boot in the order the claim gives them
ClaimedBootOrder(f) ==
    <<"sp", "fp", "pre_init", "zero_bss", "init_data">>
        \o (IF Variant(f) = "Bare" THEN <<>> ELSE <<"enable">>) \o <<"main">>

\* the same with the two register loads that _start does first
BootOrder(f) == <<"gp", "tp">> \o ClaimedBootOrder(f)

\* _start has set sp and s0 and the boot sequence is still the one running
BootHasStack ==
    /\ Occurs("fp", boot)
    /\ pc[1] \in {"start", "start_rust"}

\* C2 as stated: sp and fp are established before anything else is done, then
\* pre-init, BSS, Data, the unmasking (if configured) and main, each at most once.
C2_Original == IsPrefix(boot, ClaimedBootOrder(feat))

\* C2 (amended): in every boot _start first loads gp and copies it to tp, then
\* sets sp and s0 from _stack_start; after that, in this order and each at most
\* once, the pre-init hook, the zeroing of BSS, the copy of Data, the unmasking
\* of interrupts (if configured) and main.  The hook runs with sp = s0 =
\* _stack_start and before any write to BSS or Data.
C2_BootOrder ==
    /\ IsPrefix(boot, BootOrder(feat))
    /\ BootHasStack => (regs[2] = StackStart /\ regs[8] = StackStart)
    /\ (nboot = 1 /\ ~Occurs("zero_bss", boot)) => mem = InitMem(lay)

C2_Witness ==
    /\ feat.interrupts
    /\ boot = BootOrder(feat)
    /\ AtMainEntry

-----------------------------------------------------------------------------
(* The Register Context: PicoRV32StoredRegisters and its accessors *)

\* build.rs: the cpu_features part of the prebuilt library's name
LibName(f) ==
    IF f.qregs THEN "RV32RT_INTERRUPTS_QREGS"
    ELSE IF f.interrupts THEN "RV32RT_INTERRUPTS"
    ELSE "RV32RT_BARE"

-----------------------------------------------------------------------------
(* Trap sequencer: claims *)

InTrapCode == pc[1] = "trap" /\ Variant(feat) # "Bare"

AtRetirq == InTrapCode /\ Instr.op = "retirq"

\* C3: for the register values at trap entry drawn from the sample patterns
\* and a dispatcher that changes any caller-saved register but neither the
\* frame nor the q registers, each of ra, sp, gp, t0-t2, a0-a7, t3-t6 holds at
\* retirq the value it held at trap entry, under Full and under Compact.
C3_RoundTrip == AtRetirq => \A r \in ContextRegs : regs[r] = entry[r]

\* retirq is reached after a handler ran, with a frame that wrapped below 0
C3_Witness ==
    /\ AtRetirq
    /\ invoked # <<>>
    /\ regs[2] = MainSp(2)
    /\ regs[1] = MainRegs(2)[1]

\* words the claim gives for the frame of each saving variant
ClaimedFrameWords(f) == IF Variant(f) = "Compact" THEN 16 ELSE 18

\* between the reservation and the release of the frame
FrameHeld ==
    \/ pc[1] \in {"start_trap_rust", "trap_handler"}
    \/ InTrapCode /\ pc[2] > 1 /\ ~AtRetirq

\* C4: in every trap of a run the frame is reserved at entry (18 words under
\* Full, 16 under Compact), stays reserved until the dispatcher has returned,
\* and is released before retirq: sp at retirq, and in the resumed program,
\* equals sp at trap entry.
C4_FrameReleased ==
    [][ /\ FrameHeld => regs[2] = Add32(entry[2], -(4 * ClaimedFrameWords(feat)))
        /\ AtRetirq => (regs[2] = entry[2] /\ regs'[2] = entry[2] /\ pc' = resume)
      ]_vars

\* the second trap of a run is about to return
C4_Witness ==
    /\ AtRetirq
    /\ ntrap = 1
    /\ regs[2] = entry[2]

-----------------------------------------------------------------------------
(* Dispatcher: claims *)

InDispatch == pc[1] = "trap_handler"

DispatchDone == InDispatch /\ pc[2] = Len(table) + 1

\* C5 as stated: of two invoked handlers, the one bound to the lower
\* interrupt number is invoked first, whatever the binding order.
C5_Original ==
    \A a, b \in 1..Len(invoked) :
        table[invoked[a]] < table[invoked[b]] => a < b

Ascending(t) == \A i, j \in 1..Len(t) : i < j => t[i] <= t[j]

\* C5 (amended): the dispatcher invokes handlers in the order in which their
\* pairs were bound in picorv32_interrupts!; the invocations are in ascending
\* order of interrupt number when the pairs were bound in ascending order
\* (bound as 0, 5 with bits {0,3,5}: handler(0) then handler(5)).
C5_BindingOrder ==
    /\ \A a, b \in 1..Len(invoked) : a < b => invoked[a] < invoked[b]
    /\ Ascending(table) => C5_Original

C5_Witness ==
    /\ DispatchDone
    /\ table = <<0, 5>>
    /\ pending = {0, 3, 5}
    /\ invoked = <<1, 2>>

Invoked == {invoked[k] : k \in 1..Len(invoked)}

\* C6: in a dispatch the handler of a bound pair is invoked if and only if
\* the bit of its number is set in the bitmask the hardware supplied, and at
\* most once; bits without a pair and pairs with a clear bit invoke nothing.
C6_InvokedIffPending ==
    /\ \A k \in 1..Len(invoked) : table[invoked[k]] \in pending
    /\ \A a, b \in 1..Len(invoked) : invoked[a] = invoked[b] => a = b
    /\ DispatchDone => Invoked = {i \in 1..Len(table) : table[i] \in pending}

\* bit 5 has no pair, the pair bound to 31 runs, the pair bound to 0 does not
C6_Witness ==
    /\ DispatchDone
    /\ table = <<31, 0>>
    /\ pending = {5, 31}
    /\ invoked = <<1>>

\* the dispatcher is running on behalf of a trap
DispatcherCalled == pc[1] \in {"start_trap_rust", "trap_handler"}

\* C7: the dispatcher receives the address of the saved block (sp after the
\* frame is reserved) and the hardware bitmask, _start_trap stores the
\* registers in the field order of PicoRV32StoredRegisters, and for every
\* context register other than sp the accessor returns its value at trap entry.
C7_ContextReflectsEntry ==
    DispatcherCalled =>
        /\ args.regs = regs[2]
        /\ args.regs = Add32(entry[2], -(4 * ClaimedFrameWords(feat)))
        /\ args.irqs = hw_irqs
        /\ (IF feat.qregs THEN CompactSaved ELSE FullSaved) = StructFields(feat)
        /\ \A r \in ContextRegs \ {2} :
              Accessor(feat, r, mem, q, args.regs) = entry[r]

-----------------------------------------------------------------------------
(* Build configuration: claims *)

\* C8: every combination of the features interrupts and interrupts-qregs
\* selects exactly one _start_trap, the struct layout that its save block
\* fills, and the prebuilt library of the same name; Compact is selected only
\* with interrupts on.
C8_OneVariant ==
    /\ Cardinality(SelectedVariants(feat)) = 1
    /\ Variant(feat) = "Compact" =>
          /\ TrapCode(feat) = TrapCodeCompact
          /\ StructFields(feat) = CompactSaved
          /\ LibName(feat) = "RV32RT_INTERRUPTS_QREGS"
          /\ feat.interrupts
    /\ Variant(feat) = "Full" =>
          /\ TrapCode(feat) = TrapCodeFull
          /\ StructFields(feat) = FullSaved
          /\ LibName(feat) = "RV32RT_INTERRUPTS"
    /\ Variant(feat) = "Bare" =>
          /\ TrapCode(feat) = TrapCodeBare
          /\ LibName(feat) = "RV32RT_BARE"

C8_Witness ==
    /\ Variant(feat) = "Compact"
    /\ pc[1] = "trap"
    /\ Instr.op = "setq"

\* C9: with a saving _start_trap (Full or Compact) start_rust unmasks
\* interrupts after BSS is zero and Data is copied and before main is invoked,
\* and in the first boot they are masked until then; without interrupt support
\* nothing unmasks them.
C9_UnmaskAfterInit ==
    /\ (Variant(feat) # "Bare" /\ Occurs("main", boot)) =>
          /\ Occurs("enable", boot)
          /\ Position("zero_bss", boot) < Position("enable", boot)
          /\ Position("init_data", boot) < Position("enable", boot)
          /\ Position("enable", boot) < Position("main", boot)
    /\ (Variant(feat) # "Bare" /\ Occurs("enable", boot) /\ ~Occurs("main", boot)) =>
          (irq_on /\ BssZero /\ DataInitialised)
    /\ (nboot <= 1 /\ irq_on) => Occurs("enable", boot)
    /\ Variant(feat) = "Bare" => (~irq_on /\ ~Occurs("enable", boot))

C9_Witness ==
    /\ Variant(feat) = "Full"
    /\ irq_on
    /\ pc[1] = "start_rust"
    /\ boot[Len(boot)] = "enable"

\* C10: without interrupt support the trap entry jumps to _start and writes
\* no register and no memory word; _start then runs the boot sequence again,
\* all of it before main is entered.
C10_BareTrapRestarts ==
    [][ /\ (Variant(feat) = "Bare" /\ pc[1] = "trap") =>
              /\ pc' = <<"start", 1>>
              /\ regs' = regs /\ mem' = mem /\ q' = q
              /\ nboot' = nboot + 1
        /\ (Variant(feat) = "Bare" /\ pc'[1] = "main") => boot' = BootOrder(feat)
      ]_vars

\* main runs again after a trap restarted the system
C10_Witness ==
    /\ Variant(feat) = "Bare"
    /\ nboot = 2
    /\ AtMainEntry
    /\ boot = BootOrder(feat)

-----------------------------------------------------------------------------
(* Fatal paths: claims *)

\* C11 as stated: the boot steps run once per power cycle, whatever happens
\* after the first entry to _start (a trap, a call to abort).
C11_Original == nboot <= 1

\* C11: _start is entered once from _initjmp; it is entered again, and the boot
\* steps start over, only by abort, by a trap in a build without interrupt
\* support, or out of the undefined return of main.  A trap in a build with
\* interrupt support never re-enters _start.
C11_BootReentry ==
    [][nboot' # nboot =>
         /\ nboot' = nboot + 1
         /\ pc' = <<"start", 1>>
         /\ boot' = <<>>
         /\ \/ pc[1] = "initjmp" /\ nboot = 0
            \/ pc[1] \in {"abort", "undefined"}
            \/ pc[1] = "trap" /\ Variant(feat) = "Bare"]_vars

\* a build with interrupt support has handled a trap in its first boot, was
\* then restarted by abort, and is back in main
C11_Witness ==
    /\ feat.interrupts
    /\ nboot = 2
    /\ ntrap >= 1
    /\ pc[1] = "main"

C12_Original ==
    [][(Variant(feat) = "Bare" /\ pc[1] = "trap") =>
         pc'[1] \in {"start_trap_rust", "trap_handler", "default_trap_handler"}]_vars

\* C12: without interrupt support a trap invokes no handler at all, default or
\* bound: start_trap_rust and trap_handler are never entered, no argument is
\* ever passed, and the only thing a trap does is re-enter _start.
C12_BareNoHandler ==
    Variant(feat) = "Bare" =>
        /\ pc[1] \notin {"start_trap_rust", "trap_handler", "default_trap_handler"}
        /\ args = NoArgs
        /\ invoked = <<>>
        /\ refs = <<>>
        /\ pc[1] = "trap" => pc = <<"trap", 1>> /\ Instr = Jal(0, "_start")

\* a build without interrupt support took a trap and is back in main after the
\* reboot the trap caused
C12_Witness ==
    /\ Variant(feat) = "Bare"
    /\ nboot = 2
    /\ pc[1] = "main"

-----------------------------------------------------------------------------
(* Register context: accessors, conversion, dump: claims *)

\* C13 as stated: under the Full and under the Compact layout alike, the
\* Register Context has an accessor for every logical register (ra, sp, gp,
\* t0-t2, a0-a7, t3-t6), and a handler can read each of them through it.
C13_AllAccessors ==
    /\ AccessorRegs(feat) = ContextRegs
    /\ DispatcherCalled =>
          \A r \in ContextRegs : Accessor(feat, r, mem, q, args.regs) # NoAccessor

\* a register value, as opposed to the absence of an accessor
IsWord(w) == w \in (0..(Half - 1)) \X (0..(Half - 1))

\* C14 as stated: a conversion made by a handler of the active trap yields,
\* under either layout, a copy whose every field is the value the accessor of
\* the same register returns (under Compact, ra and sp from q2 and q3).
C14_Conversion ==
    (InDispatch /\ saved # NoCopy) =>
        \A r \in ContextRegs :
            /\ IsWord(saved[r])
            /\ saved[r] = Accessor(feat, r, mem, q, args.regs)
            /\ (feat.qregs /\ r = 1) => saved[r] = q[2]
            /\ (feat.qregs /\ r = 2) => saved[r] = q[3]

\* C19 as stated: for every return address the dump decodes the instruction at
\* ra-4 (ra even) or ra-3 (ra odd), renders it 32 bits wide exactly when the two
\* low bits of its first halfword are 11 and 16 bits wide otherwise, and lists
\* the value of every context register as its accessor returns it.
C19_Dump ==
    (InDispatch /\ dump # NoDump) =>
        LET ra == dump.ra
            at == IF ra[2] % 2 = 0 THEN Add32(ra, -4) ELSE Add32(ra, -3)
            h1 == ReadHalf(mem, at)
            h2 == ReadHalf(mem, Add32(at, 2))
        IN  /\ ra = Accessor(feat, 1, mem, q, args.regs)
            /\ dump.addr = at
            /\ dump.digits = 8 <=> h1 % 4 = 3
            /\ dump.digits = 4 <=> h1 % 4 # 3
            /\ dump.instr = IF h1 % 4 = 3 THEN <<h2, h1>> ELSE <<0, h1>>
            /\ \A r \in ContextRegs :
                  /\ IsWord(dump.regs[r])
                  /\ dump.regs[r] = Accessor(feat, r, mem, q, args.regs)

\* C20: while the dispatcher runs, the sp the context reports (the stored x2
\* under Full, q3 under Compact) is the interrupted stack pointer minus the
\* frame, 72 bytes under Full and 64 under Compact: it is the address of the
\* saved block handed to the dispatcher, not the interrupted program's sp.
C20_ReportedSp ==
    DispatcherCalled =>
        LET sp == Accessor(feat, 2, mem, q, args.regs)
        IN  /\ Variant(feat) = "Full" =>
                  /\ sp = Read(mem, Add32(args.regs, 8))
                  /\ sp = Add32(entry[2], -72)
            /\ Variant(feat) = "Compact" =>
                  /\ sp = q[3]
                  /\ sp = Add32(entry[2], -64)
            /\ sp = args.regs
            /\ sp # entry[2]

\* a handler has run under Compact, for a trap taken with sp so low that the
\* frame wrapped below address 0
C20_Witness ==
    /\ InDispatch
    /\ invoked # <<>>
    /\ Variant(feat) = "Compact"
    /\ entry[2] = MainSp(2)
    /\ q[3] = Add32(MainSp(2), -64)

-----------------------------------------------------------------------------
(* Nested traps: claims *)

\* C15: under Compact a trap taken while the dispatcher of an outer trap runs
\* puts its own ra and sp into q2 and q3, which held the outer trap's: once
\* its dispatcher is called, q3 is no longer the sp any interrupted trap saved
\* there.  The outer trap then leaves with ra = q2 and sp = q3 + 64 as they
\* were left, and its sp at retirq differs from its sp at entry.
C15_CompactNestedClobbers ==
    Variant(feat) = "Compact" =>
        /\ DispatcherCalled =>
              \A k \in 1..Len(stack) :
                  /\ stack[k].args.regs = Add32(stack[k].entry[2], -64)
                  /\ q[3] # stack[k].args.regs
        /\ (stack = <<>> /\ AtRetirq /\ nested # <<>>) =>
              /\ regs[1] = q[2]
              /\ regs[2] = Add32(q[3], 64)
              /\ q[3] # Add32(entry[2], -64)
              /\ regs[2] # entry[2]

\* the outer trap is at retirq after a nested trap: neither ra nor sp is what
\* it was when the outer trap was taken
C15_Witness ==
    /\ Variant(feat) = "Compact"
    /\ stack = <<>>
    /\ AtRetirq
    /\ nested # <<>>
    /\ regs[1] # entry[1]
    /\ regs[2] # entry[2]

\* the deepest nesting reached inside the current outermost trap
DepthReached == IF nested = <<>> THEN 0 ELSE
    CHOOSE d \in 1..Len(nested) : /\ \E k \in 1..Len(nested) : nested[k][1] = d
                                  /\ \A k \in 1..Len(nested) : nested[k][1] <= d

\* C21: under Full, every trap activation, whether or not traps were taken and
\* completed inside its dispatch and to whatever depth, reaches its retirq
\* with ra, sp, gp, t0-t2, a0-a7, t3-t6 equal to their values at its own
\* entry; each nested frame lies directly below the frame of the activation
\* it interrupted, whose saved words it leaves alone.
C21_FullNestedPreserves ==
    Variant(feat) = "Full" =>
        /\ AtRetirq => \A r \in ContextRegs : regs[r] = entry[r]
        /\ DispatcherCalled =>
              /\ args.regs = Add32(entry[2], -72)
              /\ \A r \in ContextRegs \ {2} :
                    Accessor(feat, r, mem, q, args.regs) = entry[r]
              /\ \A k \in 1..Len(stack) :
                    /\ stack[k].args.regs = Add32(stack[k].entry[2], -72)
                    /\ \A r \in ContextRegs \ {2} :
                          Accessor(feat, r, mem, q, stack[k].args.regs) = stack[k].entry[r]

\* the outermost trap is at retirq after a handler of it ran and traps nested
\* two deep were taken and completed inside its dispatch
C21_Witness ==
    /\ Variant(feat) = "Full"
    /\ stack = <<>>
    /\ AtRetirq
    /\ invoked # <<>>
    /\ DepthReached >= 2
    /\ \A r \in ContextRegs : regs[r] = entry[r]

\* the words of the frame _start_trap reserves: as many words as its first
\* instruction takes from sp, directly below the sp it was entered with
TrapFrame ==
    {Add32(entry[2], -(4 * k)) : k \in 1..((-TrapCode(feat)[1].imm) \div 4)}

\* the registers that are not part of the context: tp, s0, s1, s2-s11
OutsideContext == (1..31) \ ContextRegs

\* C22: every instruction of _start_trap (Compact and Full) that stores,
\* stores to a word of the frame reserved at its entry, 64 bytes under Compact
\* and 72 under Full, directly below the interrupted sp; no step of
\* _start_trap changes a memory word outside that frame, and none changes tp
\* or s0-s11.
C22_FrameOnly ==
    [][InTrapCode =>
          /\ Instr.op = "sw" =>
                Add32(Reg(regs, Instr.rs1), Instr.imm) \in TrapFrame
          /\ \A a \in DOMAIN mem' :
                a \notin TrapFrame => (a \in DOMAIN mem /\ mem'[a] = mem[a])
          /\ \A r \in OutsideContext : regs'[r] = regs[r]
          /\ Cardinality(TrapFrame) = ClaimedFrameWords(feat)]_vars

\* _start_trap has made all its stores, into a frame that wraps through
\* address 0, and every word of the frame has been written
C22_Witness ==
    /\ InTrapCode
    /\ Instr.op = "jal"
    /\ entry[2][1] = 0 /\ entry[2][2] < 64
    /\ TrapFrame \subseteq DOMAIN mem
    /\ \A i \in 1..Len(CompactSaved) : Variant(feat) = "Compact" =>
          Read(mem, Add32(entry[2], (i - 1) * 4 - 64)) = entry[CompactSaved[i]]

-----------------------------------------------------------------------------
(* wfi: claims *)

WfiWaiting == pc = <<"wfi", 1>>

WfiReturned == pc = <<"main", 3>>

\* C16 as stated: wfi() leaves its wait only by a trap and returns only after
\* that trap's retirq, and in every build a wfi() whose wait a trap ends
\* eventually returns to its caller.
C16_Original ==
    /\ [][(WfiWaiting /\ pc' # pc) => pc' = <<"trap", 1>>]_vars
    /\ [][(pc' = <<"wfi", 2>> /\ pc' # pc) => AtRetirq]_vars
    /\ [](WfiWaiting => ([]WfiWaiting \/ <>WfiReturned))

\* C16: wfi() leaves its wait only by a trap (no timeout, no cancellation) and
\* is resumed only by the retirq that ends that trap's entry/dispatch/exit
\* cycle; in a build with interrupt support a wfi() whose wait a trap ends
\* eventually returns to its caller.
C16_WfiReturns ==
    /\ [][(WfiWaiting /\ pc' # pc) => pc' = <<"trap", 1>>]_vars
    /\ [][(pc' = <<"wfi", 2>> /\ pc' # pc) =>
             (AtRetirq /\ ntrap' = ntrap + 1 /\ ~irq_active')]_vars
    /\ [][(pc[1] = "wfi" /\ pc'[1] = "main") => (WfiDone /\ WfiReturned')]_vars
    /\ []((feat.interrupts /\ WfiWaiting) => ([]WfiWaiting \/ <>WfiReturned))

\* wfi() has returned in a build with interrupt support
C16_Witness ==
    /\ WfiReturned
    /\ feat.interrupts
    /\ ntrap >= 1

-----------------------------------------------------------------------------
(* One bitmask per dispatch: claims *)

\* C18: the dispatcher works on the bitmask the hardware supplied at trap
\* entry, handed over once before it is called: every handler it invokes is
\* one whose source was pending at entry, every invoked handler gets the one
\* context reference the dispatcher was called with, and when the last arm is
\* done exactly the pairs pending at entry were invoked, whatever became
\* pending meanwhile.
C18_OneBitmask ==
    /\ DispatcherCalled => args.irqs = hw_irqs /\ hw_irqs = MaskOf(pending)
    /\ InDispatch =>
          /\ \A k \in 1..Len(invoked) : table[invoked[k]] \in pending
          /\ Len(refs) = Len(invoked)
          /\ \A k \in 1..Len(refs) : refs[k] = args.regs
    /\ DispatchDone => Invoked = {i \in 1..Len(table) : table[i] \in pending}

\* a source with a bound handler became pending during a dispatch in which
\* another handler ran; the dispatch is complete and its handler was not invoked
C18_Witness ==
    /\ DispatchDone
    /\ invoked # <<>>
    /\ \E i \in 1..Len(table) :
          /\ table[i] \in arrived
          /\ table[i] \notin pending
          /\ i \notin Invoked

====
